---- MODULE Spec2Model ----
(***************************************************************************)
(* RepliesController (lib/Controllers/RepliesController.js): the two       *)
(* operations createConfirmRepliesAsReceived and getCheckReplies, the      *)
(* transport callback each of them registers, and the promise and user     *)
(* callback the transport callback delivers to.                            *)
(***************************************************************************)
EXTENDS Integers, Sequences, FiniteSets, TLC

VARIABLES
    configuration,  \* the process-wide _configuration object
    bodyObj,        \* the caller's request body object of each call (caller's heap)
    pc,             \* per call: "idle" (not issued), "sent" (request in flight), "done"
    op,             \* per call: the operation that was invoked
    userCb,         \* per call: the callback argument: "none", "returns" or "throws"
    options,        \* per call: the _options handed to _request
    requests,       \* per call: how many times _request was invoked for it
    resp,           \* per call: the (_error, _response) the transport called back with
    branch,         \* per call: the branch of the transport callback that ran
    parseCalls,     \* per call: how many times JSON.parse ran on its response body
    cbCalls,        \* per call: the invocations of its _callback, in order
    promise,        \* per call: the promise returned to the caller
    settleCalls,    \* per call: how many times its _fulfill or _reject was invoked
    uncaught        \* per call: the exception that escaped its transport callback

vars == <<configuration, bodyObj, pc, op, userCb, options, requests, resp,
          branch, parseCalls, cbCalls, promise, settleCalls, uncaught>>

----------------------------------------------------------------------------
(* Bounds and input sets *)

MaxCalls == 2

CallIds == 1..MaxCalls

Confirm == "createConfirmRepliesAsReceived"
Check == "getCheckReplies"

\* JavaScript null, as a callback argument or a promise value
NullV == [tag |-> "null"]

\* JavaScript null as the value of a field of the request body
JsNull == "<null>"

\* The callback argument: absent (not a function), a function that returns,
\* a function that throws
CallbackKinds == {"none", "returns", "throws"}

\* Raw response bodies: a JSON object of the check-replies shape, valid JSON of
\* another shape, and text that is not JSON
BodyJson == "{\"replies\":[]}"
BodyOther == "[7]"
BodyBad == "<html>"
Bodies == {BodyJson, BodyOther, BodyBad}

Statuses == {199, 200, 206, 207, 400, 500}

\* What the transport may call back with: a failure without a response, a
\* failure with a response attached, and a response of each status; the body
\* varies where the callback looks at it
Responses ==
    {[error |-> TRUE, statusCode |-> 0, body |-> ""],
     [error |-> TRUE, statusCode |-> 200, body |-> BodyJson]}
    \cup [error : {FALSE}, statusCode : {200, 206}, body : Bodies]
    \cup [error : {FALSE}, statusCode : {400}, body : {BodyJson, BodyBad}]
    \cup [error : {FALSE}, statusCode : Statuses \ {200, 206, 400}, body : {BodyBad}]

NoResponse == [error |-> FALSE, statusCode |-> 0, body |-> ""]

\* The caller's request body objects: one with a null-valued field, one without
BodyWithNull == [reply_ids |-> "b28e", note |-> JsNull]
BodyPlain == [reply_ids |-> "011d"]

\* The body object the caller holds for call c
BodyOf(c) == IF c % 2 = 1 THEN BodyWithNull ELSE BodyPlain

InitConfiguration ==
    [BASEURI |-> <<"https://api.messagemedia.com", "/">>,
     basicAuthUserName |-> "user",
     basicAuthPassword |-> "secret"]

----------------------------------------------------------------------------
(* Collaborators *)

\* _apiHelper.cleanUrl: collapses duplicate separators of the concatenation
RECURSIVE cleanUrl(_)
cleanUrl(u) ==
    IF Len(u) < 2 THEN u
    ELSE IF u[1] = "/" /\ u[2] = "/" THEN cleanUrl(Tail(u))
    ELSE <<u[1]>> \o cleanUrl(Tail(u))

\* _apiHelper.cleanObject: strips the null-valued fields of the object it is given
cleanObject(o) == [k \in {f \in DOMAIN o : o[f] # JsNull} |-> o[k]]

\* _apiHelper.jsonSerialize: the JSON text of an object
jsonSerialize(o) == [json |-> {<<k, o[k]>> : k \in DOMAIN o}]

\* JSON.parse throws a SyntaxError on text that is not JSON
JSONThrows(b) == b \notin {BodyJson, BodyOther}

\* JSON.parse of valid JSON text
JSONParse(b) ==
    IF b = BodyJson THEN [tag |-> "object", replies |-> <<>>]
    ELSE [tag |-> "array", items |-> <<7>>]

\* getObjectMapper().mapObject(parsed, 'CheckRepliesResponse') fails on a value
\* that is not of the response's shape
MapThrows(v) == v.tag # "object"

mapObject(v) == [tag |-> "CheckRepliesResponse", replies |-> v.replies]

\* The _context the transport passes along with (_error, _response)
Context(r) == [response |-> [statusCode |-> r.statusCode, body |-> r.body]]

\* _baseController.validateResponse(_context, name): {error, response, context}
validateResponse(ctx) ==
    [error |-> [errorMessage |-> "HTTP Response Not OK",
                errorCode |-> ctx.response.statusCode,
                errorResponse |-> ctx.response.body],
     response |-> NullV,
     context |-> ctx]

\* Resolving or rejecting a promise: only a pending promise changes
Settle(p, kind, v) ==
    IF p.state = "Pending" THEN [state |-> kind, value |-> v] ELSE p

----------------------------------------------------------------------------
(* Initial state *)

Init ==
    /\ configuration = InitConfiguration
    /\ bodyObj = [c \in CallIds |-> BodyOf(c)]
    /\ pc = [c \in CallIds |-> "idle"]
    /\ op = [c \in CallIds |-> "none"]
    /\ userCb = [c \in CallIds |-> "none"]
    /\ options = [c \in CallIds |-> [method |-> "none"]]
    /\ requests = [c \in CallIds |-> 0]
    /\ resp = [c \in CallIds |-> NoResponse]
    /\ branch = [c \in CallIds |-> "none"]
    /\ parseCalls = [c \in CallIds |-> 0]
    /\ cbCalls = [c \in CallIds |-> <<>>]
    /\ promise = [c \in CallIds |-> [state |-> "Pending", value |-> NullV]]
    /\ settleCalls = [c \in CallIds |-> 0]
    /\ uncaught = [c \in CallIds |-> "none"]

----------------------------------------------------------------------------
(* The operations: everything up to the dispatch of the request *)

\* The request is dispatched once, inside the promise executor
Dispatch(c, o, callback, opts) ==
    /\ pc[c] = "idle"
    /\ pc' = [pc EXCEPT ![c] = "sent"]
    /\ op' = [op EXCEPT ![c] = o]
    /\ userCb' = [userCb EXCEPT ![c] = callback]
    /\ options' = [options EXCEPT ![c] = opts]
    /\ requests' = [requests EXCEPT ![c] = @ + 1]
    /\ UNCHANGED <<configuration, resp, branch, parseCalls, cbCalls, promise,
                   settleCalls, uncaught>>

\* Variant: the body is serialized as the caller passed it, nulls included
createConfirmKeepsNulls(c, callback) ==
    LET _baseUri == configuration.BASEURI
        _queryUrl == cleanUrl(_baseUri \o <<"/", "v1", "/", "replies", "/", "confirmed">>)
        _options == [queryUrl |-> _queryUrl,
                     method |-> "POST",
                     headers |-> {"accept", "content-type", "user-agent"},
                     body |-> jsonSerialize(bodyObj[c]),
                     username |-> configuration.basicAuthUserName,
                     password |-> configuration.basicAuthPassword]
    IN  /\ bodyObj' = bodyObj
        /\ Dispatch(c, Confirm, callback, _options)

createConfirmRepliesAsReceived(c, callback) ==
    LET _baseUri == configuration.BASEURI
        _queryUrl == cleanUrl(_baseUri \o <<"/", "v1", "/", "replies", "/", "confirmed">>)
        cleaned == cleanObject(bodyObj[c])
        _options == [queryUrl |-> _queryUrl,
                     method |-> "POST",
                     headers |-> {"accept", "content-type", "user-agent"},
                     body |-> jsonSerialize(cleaned),
                     username |-> configuration.basicAuthUserName,
                     password |-> configuration.basicAuthPassword]
    IN  /\ bodyObj' = [bodyObj EXCEPT ![c] = cleaned]
        /\ Dispatch(c, Confirm, callback, _options)

getCheckReplies(c, callback) ==
    LET _baseUri == configuration.BASEURI
        _queryUrl == cleanUrl(_baseUri \o <<"/", "v1", "/", "replies">>)
        _options == [queryUrl |-> _queryUrl,
                     method |-> "GET",
                     headers |-> {"accept", "user-agent"},
                     username |-> configuration.basicAuthUserName,
                     password |-> configuration.basicAuthPassword]
    IN  /\ bodyObj' = bodyObj
        /\ Dispatch(c, Check, callback, _options)

----------------------------------------------------------------------------
(* The transport callback *)

\* Variant: the upper end of the success range is excluded
IsSuccessOffByOne(statusCode) == statusCode >= 200 /\ statusCode < 206

IsSuccess(statusCode) == statusCode >= 200 /\ statusCode <= 206

\* Variant: the status code is looked at before the transport error
ConfirmBranchStatusFirst(_error, statusCode) ==
    IF IsSuccess(statusCode) THEN "Success"
    ELSE IF _error THEN "TransportError"
    ELSE IF statusCode = 400 THEN "ClientError"
    ELSE "GenericError"

\* The if / else-if chain of createConfirmRepliesAsReceived's transport callback
ConfirmBranch(_error, statusCode) ==
    IF _error THEN "TransportError"
    ELSE IF IsSuccess(statusCode) THEN "Success"
    ELSE IF statusCode = 400 THEN "ClientError"
    ELSE "GenericError"

\* The if / else-if chain of getCheckReplies's transport callback
CheckBranch(_error, statusCode) ==
    IF _error THEN "TransportError"
    ELSE IF IsSuccess(statusCode) THEN "Success"
    ELSE "GenericError"

\* Variant: _callback, _fulfill and _reject are shared by all calls and belong
\* to the call issued with the highest number
ClosureShared(c) ==
    CHOOSE d \in CallIds :
        /\ pc[d] # "idle"
        /\ \A e \in CallIds : pc[e] # "idle" => e <= d

\* The call whose _callback, _fulfill and _reject the transport callback of
\* call c holds: they are constants of the closure the call created
ClosureOf(c) == c

\* Variant: the promise is settled first and the callback invoked after it
DeliverSettleFirst(c, cbError, cbResponse, cbContext, kind, value) ==
    LET d == ClosureOf(c)
        settled == Settle(promise[d], kind, value)
        call == [by |-> c, error |-> cbError, response |-> cbResponse,
                 context |-> cbContext, promiseSeen |-> settled.state]
    IN  /\ promise' = [promise EXCEPT ![d] = settled]
        /\ settleCalls' = [settleCalls EXCEPT ![d] = @ + 1]
        /\ cbCalls' = [cbCalls EXCEPT ![d] = Append(@, call)]
        /\ uncaught' = [uncaught EXCEPT ![c] =
                           IF userCb[d] = "throws" THEN "callback" ELSE @]

\* _callback(error, response, context) followed by _fulfill(value) or
\* _reject(value); an exception thrown by the user's callback leaves the
\* transport callback before the promise is touched
Deliver(c, cbError, cbResponse, cbContext, kind, value) ==
    LET d == ClosureOf(c)
        call == [by |-> c, error |-> cbError, response |-> cbResponse,
                 context |-> cbContext, promiseSeen |-> promise[d].state]
    IN  /\ cbCalls' = [cbCalls EXCEPT ![d] = Append(@, call)]
        /\ IF userCb[d] = "throws"
             THEN /\ uncaught' = [uncaught EXCEPT ![c] = "callback"]
                  /\ UNCHANGED <<promise, settleCalls>>
             ELSE /\ promise' = [promise EXCEPT ![d] = Settle(@, kind, value)]
                  /\ settleCalls' = [settleCalls EXCEPT ![d] = @ + 1]
                  /\ UNCHANGED uncaught

\* An exception thrown before the callback is reached
Throw(c, what) ==
    /\ uncaught' = [uncaught EXCEPT ![c] = what]
    /\ UNCHANGED <<cbCalls, promise, settleCalls>>

\* Variant: the promise is rejected with the whole validateResponse result
ValidateBranchWhole(c, _context) ==
    LET errorResponse == validateResponse(_context)
    IN  /\ Deliver(c, errorResponse.error, errorResponse.response,
                   errorResponse.context, "Rejected", errorResponse)
        /\ UNCHANGED parseCalls

\* The _error branch and the final else branch
ValidateBranch(c, _context) ==
    LET errorResponse == validateResponse(_context)
    IN  /\ Deliver(c, errorResponse.error, errorResponse.response,
                   errorResponse.context, "Rejected", errorResponse.error)
        /\ UNCHANGED parseCalls

\* Variant: the 400 branch builds the generic error
ClientErrorGeneric(_response) ==
    [errorMessage |-> "HTTP Response Not OK", errorCode |-> 400,
     errorResponse |-> _response.body]

\* The error object of the 400 branch
ClientError(_response) ==
    [errorMessage |-> "", errorCode |-> 400, errorResponse |-> _response.body]

ClientErrorBranch(c, r, _context) ==
    LET _err == ClientError(r)
    IN  /\ Deliver(c, _err, NullV, _context, "Rejected", _err)
        /\ UNCHANGED parseCalls

ConfirmSuccessBranch(c, r, _context) ==
    /\ parseCalls' = [parseCalls EXCEPT ![c] = @ + 1]
    /\ IF JSONThrows(r.body)
         THEN Throw(c, "parse")
         ELSE LET parsed == JSONParse(r.body)
              IN  Deliver(c, NullV, parsed, _context, "Fulfilled", parsed)

CheckSuccessBranch(c, r, _context) ==
    /\ parseCalls' = [parseCalls EXCEPT ![c] = @ + 1]
    /\ IF JSONThrows(r.body)
         THEN Throw(c, "parse")
         ELSE IF MapThrows(JSONParse(r.body))
           THEN Throw(c, "map")
           ELSE LET parsed == mapObject(JSONParse(r.body))
                IN  Deliver(c, NullV, parsed, _context, "Fulfilled", parsed)

\* Variant: a transport failure sends the request once more
FinishRetry(c, r) ==
    /\ resp' = [resp EXCEPT ![c] = r]
    /\ IF r.error /\ requests[c] < 2
         THEN /\ requests' = [requests EXCEPT ![c] = @ + 1]
              /\ pc' = pc
         ELSE /\ pc' = [pc EXCEPT ![c] = "done"]
              /\ requests' = requests
    /\ UNCHANGED <<configuration, bodyObj, op, userCb, options>>

\* The transport callback has run; nothing dispatches the request again
Finish(c, r) ==
    /\ pc' = [pc EXCEPT ![c] = "done"]
    /\ resp' = [resp EXCEPT ![c] = r]
    /\ UNCHANGED <<configuration, bodyObj, op, userCb, options, requests>>

ConfirmTransportCallback(c, r) ==
    LET _context == Context(r)
        b == ConfirmBranch(r.error, r.statusCode)
    IN  /\ pc[c] = "sent"
        /\ op[c] = Confirm
        /\ branch' = [branch EXCEPT ![c] = b]
        /\ CASE b = "TransportError" -> ValidateBranch(c, _context)
             [] b = "Success" -> ConfirmSuccessBranch(c, r, _context)
             [] b = "ClientError" -> ClientErrorBranch(c, r, _context)
             [] OTHER -> ValidateBranch(c, _context)
        /\ Finish(c, r)

CheckTransportCallback(c, r) ==
    LET _context == Context(r)
        b == CheckBranch(r.error, r.statusCode)
    IN  /\ pc[c] = "sent"
        /\ op[c] = Check
        /\ branch' = [branch EXCEPT ![c] = b]
        /\ CASE b = "TransportError" -> ValidateBranch(c, _context)
             [] b = "Success" -> CheckSuccessBranch(c, r, _context)
             [] OTHER -> ValidateBranch(c, _context)
        /\ Finish(c, r)

Next ==
    \/ \E c \in CallIds, callback \in CallbackKinds :
          createConfirmRepliesAsReceived(c, callback)
    \/ \E c \in CallIds, callback \in CallbackKinds :
          getCheckReplies(c, callback)
    \/ \E c \in CallIds, r \in Responses : ConfirmTransportCallback(c, r)
    \/ \E c \in CallIds, r \in Responses : CheckTransportCallback(c, r)

Spec == Init /\ [][Next]_vars

TypeOK ==
    /\ pc \in [CallIds -> {"idle", "sent", "done"}]
    /\ op \in [CallIds -> {"none", Confirm, Check}]
    /\ userCb \in [CallIds -> CallbackKinds]
    /\ \A c \in CallIds : promise[c].state \in {"Pending", "Fulfilled", "Rejected"}

----------------------------------------------------------------------------
(* Properties *)

Done(c) == pc[c] = "done"

\* The error validateResponse derives from the response call c got
ValidateErrorOf(c) == validateResponse(Context(resp[c])).error

\* The body of call c's response cannot be turned into the success payload
Malformed(c) ==
    \/ JSONThrows(resp[c].body)
    \/ op[c] = Check /\ MapThrows(JSONParse(resp[c].body))

\* C1: for both operations and in each of the four branches of the transport
\* callback, the user callback (here: one that returns, or the substituted
\* no-op) is invoked exactly once and the promise is settled exactly once,
\* resolved in the success branch and rejected in every error branch.
C1_ExactlyOncePerBranch ==
    \A c \in CallIds :
        Done(c) /\ userCb[c] # "throws" =>
            /\ Len(cbCalls[c]) = 1
            /\ settleCalls[c] = 1
            /\ promise[c].state =
                 IF branch[c] = "Success" THEN "Fulfilled" ELSE "Rejected"

\* C2: when the transport callback fires with a 200-206 status and a body that
\* JSON parsing (or, for getCheckReplies, object mapping) rejects, the user
\* callback is still invoked exactly once and the promise has left Pending
\* once the transport callback has run.
C2_ExactlyOnceOnMalformedBody ==
    \A c \in CallIds :
        Done(c) /\ ~resp[c].error /\ resp[c].statusCode \in 200..206
                /\ Malformed(c) =>
            /\ Len(cbCalls[c]) = 1
            /\ promise[c].state # "Pending"

\* C3: the branch taken is one of four and is fixed by (error flag, status,
\* operation): TransportError iff the transport reports an error; otherwise
\* Success iff 200 <= status <= 206; otherwise ClientError iff the operation is
\* createConfirmRepliesAsReceived and the status is 400; otherwise the generic
\* error. A 400 to getCheckReplies is generic; 199 and 207 are errors.
C3_Classification ==
    \A c \in CallIds :
        Done(c) =>
            LET e == resp[c].error
                s == resp[c].statusCode
            IN  /\ branch[c] \in {"TransportError", "Success", "ClientError",
                                  "GenericError"}
                /\ (branch[c] = "TransportError") <=> e
                /\ (branch[c] = "Success") <=> (~e /\ s \in 200..206)
                /\ (branch[c] = "ClientError") <=>
                       (~e /\ s \notin 200..206 /\ op[c] = Confirm /\ s = 400)
                /\ (op[c] = Check /\ ~e /\ s = 400) => branch[c] = "GenericError"
                /\ (~e /\ s \in {199, 207}) => branch[c] = "GenericError"

C3_Witness ==
    /\ \E c \in CallIds :
          Done(c) /\ op[c] = Check /\ ~resp[c].error /\ resp[c].statusCode = 400
    /\ \E c \in CallIds :
          Done(c) /\ ~resp[c].error /\ resp[c].statusCode = 206

\* C4: a 400 response to createConfirmRepliesAsReceived invokes the callback
\* once with ({errorCode: 400, errorMessage: '', errorResponse: raw body}, null)
\* and, the callback having returned, rejects the promise with that same error;
\* JSON.parse never runs on the body, valid JSON or not.
C4_ClientError400 ==
    \A c \in CallIds :
        Done(c) /\ op[c] = Confirm /\ ~resp[c].error /\ resp[c].statusCode = 400 =>
            LET err == [errorCode |-> 400, errorMessage |-> "",
                        errorResponse |-> resp[c].body]
            IN  /\ parseCalls[c] = 0
                /\ uncaught[c] \notin {"parse", "map"}
                /\ Len(cbCalls[c]) = 1
                /\ cbCalls[c][1].error = err
                /\ cbCalls[c][1].response = NullV
                /\ userCb[c] # "throws" =>
                       promise[c] = [state |-> "Rejected", value |-> err]

C4_Witness ==
    \E c \in CallIds :
        /\ Done(c) /\ op[c] = Confirm /\ ~resp[c].error
        /\ resp[c].statusCode = 400 /\ resp[c].body = BodyBad
        /\ promise[c].state = "Rejected"

\* C5: a transport failure on either operation invokes the callback once with
\* the validateResponse error and, the callback having returned, rejects the
\* promise with it; the success path (null-error callback, resolve, JSON.parse)
\* is not taken, also when the response attached has a status in 200-206.
C5_TransportFailure ==
    \A c \in CallIds :
        Done(c) /\ resp[c].error =>
            /\ parseCalls[c] = 0
            /\ Len(cbCalls[c]) = 1
            /\ cbCalls[c][1].error = ValidateErrorOf(c)
            /\ cbCalls[c][1].error # NullV
            /\ cbCalls[c][1].response = NullV
            /\ promise[c].state # "Fulfilled"
            /\ userCb[c] # "throws" =>
                   promise[c] = [state |-> "Rejected", value |-> ValidateErrorOf(c)]

C5_Witness ==
    \E c \in CallIds :
        /\ Done(c) /\ resp[c].error /\ resp[c].statusCode = 200
        /\ promise[c].state = "Rejected"

\* C6: callback and promise deliver the same outcome: a resolved promise goes
\* with one callback invocation (null, payload, context) carrying the value the
\* promise holds (for createConfirmRepliesAsReceived the parsed body); a
\* rejected promise goes with one invocation whose error slot holds the
\* rejection value; and a callback that returned is followed by the matching
\* settlement.
C6_SameOutcome ==
    \A c \in CallIds :
        /\ promise[c].state = "Fulfilled" =>
              /\ Len(cbCalls[c]) = 1
              /\ cbCalls[c][1].error = NullV
              /\ cbCalls[c][1].response = promise[c].value
              /\ cbCalls[c][1].context = Context(resp[c])
              /\ op[c] = Confirm => promise[c].value = JSONParse(resp[c].body)
        /\ promise[c].state = "Rejected" =>
              /\ Len(cbCalls[c]) = 1
              /\ cbCalls[c][1].error # NullV
              /\ cbCalls[c][1].error = promise[c].value
        /\ Len(cbCalls[c]) > 0 /\ userCb[c] # "throws" =>
              promise[c].state =
                  IF cbCalls[c][1].error = NullV THEN "Fulfilled" ELSE "Rejected"

C6_Witness ==
    /\ \E c \in CallIds : promise[c].state = "Fulfilled" /\ op[c] = Confirm
    /\ \E c \in CallIds : promise[c].state = "Rejected"

\* C7 as stated: a call to createConfirmRepliesAsReceived leaves the
\* configuration and the caller's request body object as they were.
C7_NoSideEffect ==
    /\ configuration = InitConfiguration
    /\ \A c \in CallIds : bodyObj[c] = BodyOf(c)

\* C7 as amended: a call to createConfirmRepliesAsReceived leaves the
\* configuration as it was and changes the caller's request body object only by
\* removing its null-valued fields; the request sent is fixed by the
\* configuration and that body alone, whatever calls came before.
C7_OnlyNullsStripped ==
    /\ configuration = InitConfiguration
    /\ \A c \in CallIds :
          /\ \A k \in DOMAIN bodyObj[c] :
                k \in DOMAIN BodyOf(c) /\ bodyObj[c][k] = BodyOf(c)[k]
          /\ \A k \in DOMAIN BodyOf(c) \ DOMAIN bodyObj[c] :
                BodyOf(c)[k] = JsNull /\ op[c] = Confirm
          /\ op[c] = Confirm =>
                /\ \A k \in DOMAIN bodyObj[c] : bodyObj[c][k] # JsNull
                /\ options[c].body.json =
                       {<<k, BodyOf(c)[k]>> :
                           k \in {f \in DOMAIN BodyOf(c) : BodyOf(c)[f] # JsNull}}
                /\ options[c].username = InitConfiguration.basicAuthUserName
                /\ options[c].password = InitConfiguration.basicAuthPassword

C7_Witness ==
    \E c \in CallIds :
        /\ op[c] = Confirm
        /\ BodyOf(c) = BodyWithNull
        /\ DOMAIN bodyObj[c] = {"reply_ids"}

\* C8: a call dispatches exactly one request; its promise only ever moves from
\* Pending to Fulfilled or Rejected and then stays as it is; a call that is
\* done is never in flight again, whatever its outcome was.
C8_SingleShot ==
    [][\A c \in CallIds :
          /\ requests'[c] = IF pc[c] = "idle" /\ pc'[c] # "idle" THEN 1 ELSE requests[c]
          /\ requests[c] = IF pc[c] = "idle" THEN 0 ELSE 1
          /\ promise[c].state # "Pending" => promise'[c] = promise[c]
          /\ promise'[c].state \in {"Pending", "Fulfilled", "Rejected"}
          /\ pc[c] = "done" => pc'[c] = "done"
          /\ pc[c] = "sent" => pc'[c] \in {"sent", "done"}]_vars

C8_Witness ==
    \E c \in CallIds :
        /\ Done(c) /\ promise[c].state = "Rejected" /\ requests[c] = 1
        /\ resp[c].error

\* C9: with several calls in flight, whatever a call's callback and promise
\* receive comes from the transport callback of that call and is fixed by that
\* call's own response; until its own response arrives, a call's callback has
\* not run and its promise is Pending.
C9_Independent ==
    \A c \in CallIds :
        /\ \A i \in 1..Len(cbCalls[c]) :
              /\ cbCalls[c][i].by = c
              /\ cbCalls[c][i].context = Context(resp[c])
        /\ ~Done(c) =>
              /\ cbCalls[c] = <<>>
              /\ promise[c].state = "Pending"
              /\ settleCalls[c] = 0
              /\ uncaught[c] = "none"
        /\ promise[c].state = "Fulfilled" =>
              promise[c].value =
                  IF op[c] = Confirm THEN JSONParse(resp[c].body)
                  ELSE mapObject(JSONParse(resp[c].body))
        /\ promise[c].state = "Rejected" =>
              promise[c].value =
                  IF ~resp[c].error /\ op[c] = Confirm /\ resp[c].statusCode = 400
                    THEN [errorCode |-> 400, errorMessage |-> "",
                          errorResponse |-> resp[c].body]
                    ELSE ValidateErrorOf(c)

C9_Witness ==
    \E c, d \in CallIds :
        /\ c < d
        /\ pc[c] = "sent" /\ Done(d)
        /\ promise[d].state = "Fulfilled"

\* C10: whenever the user callback runs, the promise of its call is still
\* Pending; a call whose user callback threw has a promise that is Pending
\* and neither _fulfill nor _reject has been invoked for it.
C10_CallbackBeforeSettle ==
    \A c \in CallIds :
        /\ \A i \in 1..Len(cbCalls[c]) : cbCalls[c][i].promiseSeen = "Pending"
        /\ uncaught[c] = "callback" =>
              /\ Len(cbCalls[c]) = 1
              /\ promise[c].state = "Pending"
              /\ settleCalls[c] = 0

C10_Witness ==
    /\ \E c \in CallIds :
          Done(c) /\ uncaught[c] = "callback" /\ branch[c] = "Success"
    /\ \E c \in CallIds :
          Done(c) /\ uncaught[c] = "callback" /\ branch[c] # "Success"

====
